---- MODULE Spec2Model ----
(***************************************************************************)
(* A model of unicycle's Unordered (src/src/lib.rs): a slab of futures,    *)
(* the pollable list, the result queue, the two wake sets (one active, one *)
(* alternate) and the shared parent waker, driven by one owner that calls  *)
(* push and poll_next and by notifier threads that invoke the per-task     *)
(* wake handles handed out by poll_next.                                    *)
(*                                                                         *)
(* poll_next is split at every access to data the notifier threads share   *)
(* (the shared waker, the wake set locks, the active wake set pointer);    *)
(* the owner's private data (slab, pollable, results) changes only inside  *)
(* the owner's steps.                                                      *)
(***************************************************************************)
EXTENDS Naturals, Integers, Sequences, FiniteSets

\* ------------------------------------------------------------- bounds
\* Slot indexes of the slab are 0 .. MaxSlots-1.
MaxSlots == 2
\* Number of futures pushed in one behaviour; futures are named 1 .. MaxPushes.
MaxPushes == 3

Slots == 0 .. (MaxSlots - 1)
TaskIds == 1 .. MaxPushes
\* What advancing a future (Future::poll) may return.
Outcomes == {"Ready", "Pending"}
\* The notifier threads that invoke wake handles.
Threads == {"t1"}
\* The notification targets (parent wakers) a caller may hand to poll_next.
Targets == {"w1", "w2"}
\* The shared waker cell before any target was stored.
NoWaker == "none"
\* The two heap-allocated wake sets; NoBuffer: no pointer loaded.
Buffers == {1, 2}
NoBuffer == 0
\* State of a wake set's lock: Exclusive (lock_write held) or the number of
\* shared holders (0 = unlocked).
Exclusive == -1
\* An empty slot of the slab.
Vacant == [id |-> 0, polled |-> FALSE]

VARIABLES
    pollable,        \* Unordered.pollable: Vec<usize>
    slab,            \* Unordered.slab: slot index -> future (or Vacant)
    max_index,       \* Unordered.max_index
    results,         \* Unordered.results: VecDeque<F::Output>
    wake_alternate,  \* Unordered.wake_alternate: the wake set the owner holds
    active,          \* shared.wake_set: the atomically swapped active pointer
    bits,            \* wake set -> indexes set in its bit set
    cap,             \* wake set -> capacity of its bit set
    lock,            \* wake set -> Exclusive or number of shared holders
    waker,           \* shared.waker: the stored parent waker
    pc,              \* the owner's position in poll_next ("idle": outside;
                     \* "dropped": the Unordered was dropped)
    cx,              \* the waker given to the last (or current) poll_next call
    ret,             \* what the last finished poll_next call returned, and by which
                     \* path; "running" once a call has entered the wake set protocol
    swapped,         \* the call that just got past the early returns called
                     \* SharedWaker::swap (cleared by its next step)
    same,            \* ... and was given the waker the previous call was given
    nextId,          \* name of the next future pushed
    delivered,       \* future -> number of times poll_next returned its output
    handles,         \* slot indexes for which a wake handle was handed out
    tpc,             \* thread -> position in the wake handle's wake_by_ref
    tidx,            \* thread -> index of the handle it invokes
    tbuf,            \* thread -> the wake set pointer it loaded
    notified,        \* cx was woken since the last poll_next call began
    old,             \* wake set -> bits already set when the last cycle began
    anyWake,         \* a wake handle was invoked at some point
    eos              \* "no", "ended" (end-of-stream returned), "pushed" (push after it)

vars == << pollable, slab, max_index, results, wake_alternate, active, bits, cap,
           lock, waker, pc, cx, ret, swapped, same, nextId, delivered, handles, tpc, tidx,
           tbuf, notified, old, anyWake, eos >>

\* The owner's futures and bookkeeping about them.
taskVars == << slab, max_index, nextId, handles >>
\* The two wake sets and the pointers to them.
setVars == << wake_alternate, active, bits, cap, lock >>
\* The notifier threads.
threadVars == << tpc, tidx, tbuf >>

\* ------------------------------------------------------------- helpers
\* PinSlab::is_empty, as used by Unordered::is_empty and poll_next.
is_empty == \A i \in Slots : slab[i] = Vacant

\* Number of slots the slab has handed out so far (indexes 0 .. SlabLen-1).
SlabLen == IF nextId = 1 THEN 0 ELSE max_index + 1

\* PinSlab::insert: the index a new future gets: a freed slot is reused,
\* otherwise the slab grows by one slot.
InsertIndexes ==
    LET free == {i \in Slots : i < SlabLen /\ slab[i] = Vacant}
    IN  IF free # {} THEN free ELSE {SlabLen} \cap Slots

Max(a, b) == IF a >= b THEN a ELSE b

\* Faulty variants of MustSwap: the stored waker is replaced on every call
\* that gets past the early returns; it is never replaced.
MustSwap_Always(c) == TRUE
MustSwap_Never(c) == FALSE

\* Faulty variant of MustSwap: c is compared with the waker given to the
\* call before, not with the stored one.
MustSwap_LastCall(c) == cx # c

\* !shared.waker.is_woken_by(cx.waker()): the stored parent waker is not c.
MustSwap(c) == waker # c

\* The wake set released by Drop (NoBuffer while the Unordered lives).
Freed == IF pc = "dropped" THEN wake_alternate ELSE NoBuffer

\* SharedWaker::wake_by_ref: whether waking the stored parent waker wakes cx.
WakesCaller == waker # NoWaker /\ waker = cx

\* ------------------------------------------------------------- construction
\* Faulty variant of Init: new() does not write-lock the alternate wake set.
Init_Unlocked ==
    /\ pollable = << >>
    /\ slab = [i \in Slots |-> Vacant]
    /\ max_index = 0
    /\ results = << >>
    /\ wake_alternate = 2
    /\ active = 1
    /\ bits = [b \in Buffers |-> {}]
    /\ cap = [b \in Buffers |-> 0]
    /\ lock = [b \in Buffers |-> 0]
    /\ waker = NoWaker
    /\ pc = "idle"
    /\ cx = NoWaker
    /\ ret = "none"
    /\ swapped = FALSE
    /\ same = FALSE
    /\ nextId = 1
    /\ delivered = [k \in TaskIds |-> 0]
    /\ handles = {}
    /\ tpc = [t \in Threads |-> "idle"]
    /\ tidx = [t \in Threads |-> 0]
    /\ tbuf = [t \in Threads |-> NoBuffer]
    /\ notified = FALSE
    /\ old = [b \in Buffers |-> {}]
    /\ anyWake = FALSE
    /\ eos = "no"

\* Unordered::new: the alternate wake set is created and write-locked; the
\* shared state holds a fresh, unlocked wake set and no parent waker.
Init ==
    /\ pollable = << >>
    /\ slab = [i \in Slots |-> Vacant]
    /\ max_index = 0
    /\ results = << >>
    /\ wake_alternate = 2
    /\ active = 1
    /\ bits = [b \in Buffers |-> {}]
    /\ cap = [b \in Buffers |-> 0]
    /\ lock = [b \in Buffers |-> IF b = 2 THEN Exclusive ELSE 0]
    /\ waker = NoWaker
    /\ pc = "idle"
    /\ cx = NoWaker
    /\ ret = "none"
    /\ swapped = FALSE
    /\ same = FALSE
    /\ nextId = 1
    /\ delivered = [k \in TaskIds |-> 0]
    /\ handles = {}
    /\ tpc = [t \in Threads |-> "idle"]
    /\ tidx = [t \in Threads |-> 0]
    /\ tbuf = [t \in Threads |-> NoBuffer]
    /\ notified = FALSE
    /\ old = [b \in Buffers |-> {}]
    /\ anyWake = FALSE
    /\ eos = "no"

\* ------------------------------------------------------------- push
\* Faulty variant of Push: the index is not marked pollable.
Push_NotPollable ==
    /\ pc = "idle"
    /\ nextId <= MaxPushes
    /\ \E index \in InsertIndexes :
          /\ slab' = [slab EXCEPT ![index] = [id |-> nextId, polled |-> FALSE]]
          /\ max_index' = Max(max_index, index)
    /\ nextId' = nextId + 1
    /\ eos' = IF eos = "ended" THEN "pushed" ELSE eos
    /\ UNCHANGED << pollable, results, delivered, handles, setVars, threadVars, waker,
                    pc, cx, ret, swapped, same, notified, old, anyWake >>

\* Unordered::push(future): insert into the slab, raise max_index, and mark
\* the index pollable.  (push takes &mut self: never during a poll_next.)
Push ==
    /\ pc = "idle"
    /\ nextId <= MaxPushes
    /\ \E index \in InsertIndexes :
          /\ slab' = [slab EXCEPT ![index] = [id |-> nextId, polled |-> FALSE]]
          /\ max_index' = Max(max_index, index)
          /\ pollable' = Append(pollable, index)
    /\ nextId' = nextId + 1
    /\ eos' = IF eos = "ended" THEN "pushed" ELSE eos
    /\ UNCHANGED << results, delivered, handles, setVars, threadVars, waker, pc, cx,
                    ret, swapped, same, notified, old, anyWake >>

\* ------------------------------------------------------------- drop
\* Drop for Unordered: WakeSet::drop_raw(self.wake_alternate) releases the
\* alternate wake set; then the fields are dropped: the pollable list, the
\* futures still in the slab and the outputs still queued are destroyed.
\* The shared state (and the active wake set) lives on with the wake
\* handles that hold it.
Drop ==
    /\ pc = "idle"
    /\ pc' = "dropped"
    /\ pollable' = << >>
    /\ slab' = [i \in Slots |-> Vacant]
    /\ results' = << >>
    /\ UNCHANGED << delivered, max_index, nextId, handles, setVars, threadVars, waker,
                    cx, ret, swapped, same, notified, old, anyWake, eos >>

\* ------------------------------------------------------------- poll_next
\* Faulty variant of PollResult: the early return stores the caller's waker.
PollResult_Stores(c) ==
    /\ pc = "idle"
    /\ results # << >>
    /\ cx' = c
    /\ waker' = c
    /\ delivered' = [delivered EXCEPT ![Head(results)] = @ + 1]
    /\ results' = Tail(results)
    /\ notified' = TRUE
    /\ ret' = "queued"
    /\ UNCHANGED << pollable, taskVars, setVars, threadVars, pc, swapped, same,
                    old, anyWake, eos >>

\* poll_next(cx) with cx.waker() = c, first early return, "Return pending
\* result": pop the oldest result, wake the caller's waker, return it.
PollResult(c) ==
    /\ pc = "idle"
    /\ results # << >>
    /\ cx' = c
    /\ delivered' = [delivered EXCEPT ![Head(results)] = @ + 1]
    /\ results' = Tail(results)
    /\ notified' = TRUE
    /\ ret' = "queued"
    /\ UNCHANGED << pollable, taskVars, setVars, threadVars, waker, pc, swapped, same,
                    old, anyWake, eos >>

\* Faulty variant of PollEmpty: the slab is tested before the result queue.
PollEmpty_BeforeResults(c) ==
    /\ pc = "idle"
    /\ is_empty
    /\ cx' = c
    /\ notified' = FALSE
    /\ ret' = "eos"
    /\ eos' = "ended"
    /\ UNCHANGED << pollable, results, delivered, taskVars, setVars, threadVars, waker,
                    pc, swapped, same, old, anyWake >>

\* poll_next(cx), second early return: the result queue and the slab are
\* empty, "Nothing to poll, nothing to add": end the stream.
PollEmpty(c) ==
    /\ pc = "idle"
    /\ results = << >>
    /\ is_empty
    /\ cx' = c
    /\ notified' = FALSE
    /\ ret' = "eos"
    /\ eos' = "ended"
    /\ UNCHANGED << pollable, results, delivered, taskVars, setVars, threadVars, waker,
                    pc, swapped, same, old, anyWake >>

\* poll_next(cx) past both early returns: store the caller's waker unless it
\* is the one stored, and enter the wake set protocol.
PollBegin(c) ==
    /\ pc = "idle"
    /\ results = << >>
    /\ ~is_empty
    /\ cx' = c
    /\ waker' = IF MustSwap(c) THEN c ELSE waker
    /\ swapped' = MustSwap(c)
    /\ same' = (c = cx)
    /\ notified' = FALSE
    /\ old' = bits
    /\ pc' = "reserve"
    /\ UNCHANGED << pollable, results, delivered, taskVars, setVars, threadVars, ret,
                    anyWake, eos >>

\* Faulty variant of Reserve: set.reserve(max_index).
Reserve_OffByOne ==
    IF cap[wake_alternate] <= max_index
      THEN [cap EXCEPT ![wake_alternate] = Max(cap[wake_alternate], max_index)]
      ELSE cap

\* The capacities after the alternate wake set is grown to hold max_index:
\* if set.capacity() <= max_index { set.reserve(max_index + 1) }.
Reserve ==
    IF cap[wake_alternate] <= max_index
      THEN [cap EXCEPT ![wake_alternate] = max_index + 1]
      ELSE cap

\* Grow the alternate wake set (which no thread can reach while it is
\* write-locked), then (**wake_alternate).unlock_write().
PollUnlock ==
    /\ pc = "reserve"
    /\ cap' = Reserve
    /\ lock' = [lock EXCEPT ![wake_alternate] = 0]
    /\ ret' = "running"
    /\ swapped' = FALSE
    /\ same' = FALSE
    /\ pc' = "swap"
    /\ UNCHANGED << pollable, results, delivered, taskVars, wake_alternate, active, bits,
                    threadVars, waker, cx, notified, old, anyWake, eos >>

\* Faulty variant of PollSwap: the pointers are not exchanged.
PollSwap_Kept ==
    /\ pc = "swap"
    /\ pc' = "lock"
    /\ UNCHANGED << pollable, results, delivered, taskVars, setVars, threadVars,
                    waker, cx, ret, swapped, same, notified, old, anyWake, eos >>

\* *wake_alternate = shared.wake_set.swap(next)
PollSwap ==
    /\ pc = "swap"
    /\ active' = wake_alternate
    /\ wake_alternate' = active
    /\ pc' = "lock"
    /\ UNCHANGED << pollable, results, delivered, taskVars, bits, cap, lock, threadVars,
                    waker, cx, ret, swapped, same, notified, old, anyWake, eos >>

\* Faulty variant of PollLock: the drained wake set is not write-locked.
PollLock_NotLocked ==
    /\ pc = "lock"
    /\ pc' = "loop"
    /\ UNCHANGED << pollable, results, delivered, taskVars, setVars, threadVars, waker,
                    cx, ret, swapped, same, notified, old, anyWake, eos >>

\* Faulty variant of PollLock: the owner waits for the holders of the newly
\* active wake set.
PollLock_Active ==
    /\ pc = "lock"
    /\ lock[active] = 0
    /\ lock' = [lock EXCEPT ![wake_alternate] = Exclusive]
    /\ pc' = "loop"
    /\ UNCHANGED << pollable, results, delivered, taskVars, wake_alternate, active, bits,
                    cap, threadVars, waker, cx, ret, swapped, same, notified, old,
                    anyWake, eos >>

\* (**wake_alternate).lock_write(): spins until no shared holder is left.
PollLock ==
    /\ pc = "lock"
    /\ lock[wake_alternate] = 0
    /\ lock' = [lock EXCEPT ![wake_alternate] = Exclusive]
    /\ pc' = "loop"
    /\ UNCHANGED << pollable, results, delivered, taskVars, wake_alternate, active, bits,
                    cap, threadVars, waker, cx, ret, swapped, same, notified, old,
                    anyWake, eos >>

\* Faulty variant of PollIndex: a completed future stays in the slab.
PollIndex_NotRemoved(index) ==
    IF slab[index] = Vacant
      THEN UNCHANGED << slab, results, handles >>
      ELSE /\ handles' = handles \cup {index}
           /\ \E result \in Outcomes :
                IF result = "Ready"
                  THEN /\ results' = Append(results, slab[index].id)
                       /\ slab' = [slab EXCEPT ![index].polled = TRUE]
                  ELSE /\ slab' = [slab EXCEPT ![index].polled = TRUE]
                       /\ UNCHANGED results

\* Faulty variant of PollIndex: the output of a completed future is not queued.
PollIndex_NotQueued(index) ==
    IF slab[index] = Vacant
      THEN UNCHANGED << slab, results, handles >>
      ELSE /\ handles' = handles \cup {index}
           /\ \E result \in Outcomes :
                IF result = "Ready"
                  THEN /\ slab' = [slab EXCEPT ![index] = Vacant]
                       /\ UNCHANGED results
                  ELSE /\ slab' = [slab EXCEPT ![index].polled = TRUE]
                       /\ UNCHANGED results

\* Faulty variant of PollIndex: the slot is advanced without testing that
\* it holds a future.
PollIndex_Unchecked(index) ==
    /\ handles' = handles \cup {index}
    /\ \E result \in Outcomes :
         IF result = "Ready"
           THEN /\ results' = Append(results, slab[index].id)
                /\ slab' = [slab EXCEPT ![index] = Vacant]
           ELSE /\ slab' = [slab EXCEPT ![index].polled = TRUE]
                /\ UNCHANGED results

\* The body of the for loop for one index: skip a vacant slot, otherwise
\* advance the future with a wake handle bound to the index; the future
\* returns Ready or Pending as it pleases; on Ready queue the output and
\* remove the future from the slab.
PollIndex(index) ==
    IF slab[index] = Vacant
      THEN UNCHANGED << slab, results, handles >>
      ELSE /\ handles' = handles \cup {index}
           /\ \E result \in Outcomes :
                IF result = "Ready"
                  THEN /\ results' = Append(results, slab[index].id)
                       /\ slab' = [slab EXCEPT ![index] = Vacant]
                  ELSE /\ slab' = [slab EXCEPT ![index].polled = TRUE]
                       /\ UNCHANGED results

\* The iterator yields pollable.pop() while the pollable list is not empty.
PollPollable ==
    /\ pc = "loop"
    /\ pollable # << >>
    /\ pollable' = SubSeq(pollable, 1, Len(pollable) - 1)
    /\ PollIndex(pollable[Len(pollable)])
    /\ UNCHANGED << max_index, nextId, delivered, setVars, threadVars, waker, pc, cx,
                    ret, swapped, same, notified, old, anyWake, eos >>

\* Faulty variant of PollDrained: every slot is visited, woken or not.
PollDrained_All ==
    /\ pc = "loop"
    /\ pollable = << >>
    /\ \E index \in Slots :
          /\ bits' = [bits EXCEPT ![wake_alternate] = @ \ {index}]
          /\ old' = [old EXCEPT ![wake_alternate] = @ \ {index}]
          /\ PollIndex(index)
    /\ UNCHANGED << pollable, max_index, nextId, delivered, wake_alternate, active, cap,
                    lock, threadVars, waker, pc, cx, ret, swapped, same, notified,
                    anyWake, eos >>

\* ... then the indexes drained from the wake set that was active.
PollDrained ==
    /\ pc = "loop"
    /\ pollable = << >>
    /\ \E index \in bits[wake_alternate] :
          /\ bits' = [bits EXCEPT ![wake_alternate] = @ \ {index}]
          /\ old' = [old EXCEPT ![wake_alternate] = @ \ {index}]
          /\ PollIndex(index)
    /\ UNCHANGED << pollable, max_index, nextId, delivered, wake_alternate, active, cap,
                    lock, threadVars, waker, pc, cx, ret, swapped, same, notified,
                    anyWake, eos >>

\* Faulty variant of PollFinish: the returned result stays in the queue.
PollFinish_NotPopped ==
    /\ pc = "loop"
    /\ pollable = << >>
    /\ bits[wake_alternate] = {}
    /\ IF results # << >>
         THEN /\ delivered' = [delivered EXCEPT ![Head(results)] = @ + 1]
              /\ notified' = TRUE
              /\ ret' = "ready"
              /\ UNCHANGED results
         ELSE /\ ret' = "pending"
              /\ UNCHANGED << delivered, results, notified >>
    /\ pc' = "idle"
    /\ UNCHANGED << pollable, taskVars, setVars, threadVars, waker, cx, swapped, same,
                    old, anyWake, eos >>

\* Faulty variant of PollFinish: a cycle that produced nothing ends the stream.
PollFinish_Ends ==
    /\ pc = "loop"
    /\ pollable = << >>
    /\ bits[wake_alternate] = {}
    /\ IF results # << >>
         THEN /\ delivered' = [delivered EXCEPT ![Head(results)] = @ + 1]
              /\ results' = Tail(results)
              /\ notified' = TRUE
              /\ ret' = "ready"
         ELSE /\ ret' = "eos"
              /\ UNCHANGED << delivered, results, notified >>
    /\ pc' = "idle"
    /\ UNCHANGED << pollable, taskVars, setVars, threadVars, waker, cx, swapped, same,
                    old, anyWake, eos >>

\* Faulty variant of PollFinish: the caller's waker is not woken.
PollFinish_NotWoken ==
    /\ pc = "loop"
    /\ pollable = << >>
    /\ bits[wake_alternate] = {}
    /\ IF results # << >>
         THEN /\ delivered' = [delivered EXCEPT ![Head(results)] = @ + 1]
              /\ results' = Tail(results)
              /\ ret' = "ready"
              /\ UNCHANGED notified
         ELSE /\ ret' = "pending"
              /\ UNCHANGED << delivered, results, notified >>
    /\ pc' = "idle"
    /\ UNCHANGED << pollable, taskVars, setVars, threadVars, waker, cx, swapped, same,
                    old, anyWake, eos >>

\* Faulty variant of PollFinish: after the loop Poll::Pending is returned,
\* whatever the loop queued.
PollFinish_AlwaysPending ==
    /\ pc = "loop"
    /\ pollable = << >>
    /\ bits[wake_alternate] = {}
    /\ ret' = "pending"
    /\ pc' = "idle"
    /\ UNCHANGED << pollable, results, delivered, notified, taskVars, setVars, threadVars,
                    waker, cx, swapped, same, old, anyWake, eos >>

\* "Return produced result" (waking the caller's waker), or Poll::Pending.
PollFinish ==
    /\ pc = "loop"
    /\ pollable = << >>
    /\ bits[wake_alternate] = {}
    /\ IF results # << >>
         THEN /\ delivered' = [delivered EXCEPT ![Head(results)] = @ + 1]
              /\ results' = Tail(results)
              /\ notified' = TRUE
              /\ ret' = "ready"
         ELSE /\ ret' = "pending"
              /\ UNCHANGED << delivered, results, notified >>
    /\ pc' = "idle"
    /\ UNCHANGED << pollable, taskVars, setVars, threadVars, waker, cx, swapped, same,
                    old, anyWake, eos >>

\* ------------------------------------------------------------- wake handles
\* A thread invokes the wake handle bound to index i: it loads the active
\* wake set pointer.
WakeStart(t, i) ==
    /\ tpc[t] = "idle"
    /\ i \in handles
    /\ tidx' = [tidx EXCEPT ![t] = i]
    /\ tbuf' = [tbuf EXCEPT ![t] = active]
    /\ tpc' = [tpc EXCEPT ![t] = "lock"]
    /\ anyWake' = TRUE
    /\ UNCHANGED << pollable, results, delivered, taskVars, setVars, waker, pc, cx,
                    ret, swapped, same, notified, old, eos >>

\* It loads the active wake set pointer again.
WakeLoad(t) ==
    /\ tpc[t] = "load"
    /\ tbuf' = [tbuf EXCEPT ![t] = active]
    /\ tpc' = [tpc EXCEPT ![t] = "lock"]
    /\ UNCHANGED << pollable, results, delivered, taskVars, setVars, tidx, waker, pc, cx,
                    ret, swapped, same, notified, old, anyWake, eos >>

\* It takes the wake set's lock shared; finding it write-locked it refetches
\* the active pointer.  Through a pointer to the released wake set it reads
\* released memory: it may find any lock state there.
WakeLock(t) ==
    /\ tpc[t] = "lock"
    /\ \/ /\ lock[tbuf[t]] = Exclusive \/ tbuf[t] = Freed
          /\ tpc' = [tpc EXCEPT ![t] = "load"]
          /\ tbuf' = [tbuf EXCEPT ![t] = NoBuffer]
          /\ UNCHANGED lock
       \/ /\ lock[tbuf[t]] # Exclusive \/ tbuf[t] = Freed
          /\ lock' = IF tbuf[t] = Freed THEN lock ELSE [lock EXCEPT ![tbuf[t]] = @ + 1]
          /\ tpc' = [tpc EXCEPT ![t] = "set"]
          /\ UNCHANGED tbuf
    /\ UNCHANGED << pollable, results, delivered, taskVars, wake_alternate, active, bits,
                    cap, tidx, waker, pc, cx, ret, swapped, same, notified, old,
                    anyWake, eos >>

\* It sets its index's bit and releases the shared lock (writes through a
\* pointer to the released wake set reach no wake set).
WakeSet(t) ==
    /\ tpc[t] = "set"
    /\ bits' = IF tbuf[t] = Freed THEN bits ELSE [bits EXCEPT ![tbuf[t]] = @ \cup {tidx[t]}]
    /\ lock' = IF tbuf[t] = Freed THEN lock ELSE [lock EXCEPT ![tbuf[t]] = @ - 1]
    /\ tbuf' = [tbuf EXCEPT ![t] = NoBuffer]
    /\ tidx' = [tidx EXCEPT ![t] = 0]
    /\ tpc' = [tpc EXCEPT ![t] = "wake"]
    /\ UNCHANGED << pollable, results, delivered, taskVars, wake_alternate, active, cap,
                    waker, pc, cx, ret, swapped, same, notified, old, anyWake, eos >>

\* It wakes the stored parent waker, if there is one.
WakeNotify(t) ==
    /\ tpc[t] = "wake"
    /\ notified' = (notified \/ WakesCaller)
    /\ tpc' = [tpc EXCEPT ![t] = "idle"]
    /\ UNCHANGED << pollable, results, delivered, taskVars, setVars, tidx, tbuf, waker, pc, cx,
                    ret, swapped, same, old, anyWake, eos >>

\* ------------------------------------------------------------- specification
Next ==
    \/ Push
    \/ \E c \in Targets : PollResult(c)
    \/ \E c \in Targets : PollEmpty(c)
    \/ \E c \in Targets : PollBegin(c)
    \/ PollUnlock
    \/ PollSwap
    \/ PollLock
    \/ PollPollable
    \/ PollDrained
    \/ PollFinish
    \/ Drop
    \/ \E t \in Threads, i \in Slots : WakeStart(t, i)
    \/ \E t \in Threads : WakeLoad(t)
    \/ \E t \in Threads : WakeLock(t)
    \/ \E t \in Threads : WakeSet(t)
    \/ \E t \in Threads : WakeNotify(t)

Spec == Init /\ [][Next]_vars

\* The steps of the owner inside a poll_next call that got past the early
\* returns, and the steps of a thread inside a wake handle's wake_by_ref.
OwnerStep == PollUnlock \/ PollSwap \/ PollLock \/ PollPollable \/ PollDrained \/ PollFinish
ThreadStep(t) == WakeLoad(t) \/ WakeLock(t) \/ WakeSet(t) \/ WakeNotify(t)

\* The owner keeps running a poll_next call it is in (advancing a future
\* returns), and a thread keeps running a wake it has begun.
FairSpec ==
    /\ Spec
    /\ WF_vars(OwnerStep)
    /\ \A t \in Threads : WF_vars(ThreadStep(t))

\* ------------------------------------------------------------- properties
\* The indexes in the pollable list.
PollableSet == {pollable[j] : j \in 1 .. Len(pollable)}

\* Number of places future k is held in: slots of the slab, entries of the
\* result queue.
InSlab(k) == Cardinality({i \in Slots : slab[i] # Vacant /\ slab[i].id = k})
InResults(k) == Cardinality({j \in 1 .. Len(results) : results[j] = k})

\* Futures pushed so far.
Pushed == 1 .. (nextId - 1)

\* The step is the entry of a poll_next call (it may also return at once).
PollEntry == pc = "idle" /\ pc' # "dropped" /\ nextId' = nextId /\ tpc' = tpc

\* The step is the return of a poll_next call.
PollReturn == pc' = "idle" /\ (pc # "idle" \/ PollEntry)

\* The step is the return of a poll_next call, with end-of-stream
\* (Poll::Ready(None)), an output (Poll::Ready(Some)), or Poll::Pending.
ReturnsEos == PollReturn /\ ret' = "eos"
ReturnsOutput == PollReturn /\ ret' \in {"queued", "ready"}
ReturnsPending == PollReturn /\ ret' = "pending"

\* The step is one turn of the for loop, taken for index i: the last entry
\* of the pollable list, or i drained from the alternate wake set.
Taken(i) ==
    /\ pc = "loop"
    /\ \/ /\ pollable # << >> /\ i = pollable[Len(pollable)]
          /\ pollable' = SubSeq(pollable, 1, Len(pollable) - 1)
       \/ /\ pollable = << >> /\ i \in bits[wake_alternate]
          /\ bits'[wake_alternate] = bits[wake_alternate] \ {i}

\* Future k has completed: its output is queued or was returned.
Completed(k) == InResults(k) > 0 \/ delivered[k] > 0

\* C1: while the Unordered lives every pushed future is, at every instant,
\* in exactly one place and there once: in the slab (not completed), in the
\* result queue (completed, output not yet returned) or returned by
\* poll_next exactly once; no output is returned twice, none disappears, and
\* while an output waits in the queue between calls the caller's waker has
\* been woken.  Dropping the Unordered destroys what the slab and the queue
\* hold; no output was returned twice.
C1_ExactlyOnce ==
    /\ pc # "dropped" =>
          \A k \in TaskIds :
             InSlab(k) + InResults(k) + delivered[k] = (IF k \in Pushed THEN 1 ELSE 0)
    /\ pc = "dropped" =>
          \A k \in TaskIds : InSlab(k) + InResults(k) = 0 /\ delivered[k] <= 1
    /\ (pc = "idle" /\ results # << >>) => notified

\* C1 witness: both futures were returned, after wake handles were invoked.
C1_Witness == anyWake /\ \A k \in TaskIds : delivered[k] = 1

\* C2: a bit set before a cycle began (during the previous cycle or between
\* the two) is in the wake set that cycle drains and is drained by its end:
\* when no cycle runs no such bit is left in either wake set.
C2_NoWakeLost ==
    /\ \A b \in Buffers : old[b] \subseteq bits[b]
    /\ pc = "idle" => \A b \in Buffers : old[b] = {}
    /\ pc = "loop" => old[active] = {}

\* C2 witness: the owner is draining a bit set before the swap while another
\* set has landed in the newly active wake set.
C2_Witness == pc = "loop" /\ old[wake_alternate] # {} /\ bits[active] # {}

\* C3: a future that was never advanced has its index in the pollable
\* list, whatever its wake bit; the list is only emptied by a cycle, which
\* advances every index it pops, so the cycle ends with every future advanced.
C3_PushedIsPolled ==
    \A i \in Slots : (slab[i] # Vacant /\ ~slab[i].polled) => i \in PollableSet

\* C3 witness: a poll_next call returned a queued result and left a future
\* that was never advanced in the pollable list, no wake bit set for it.
C3_Witness ==
    /\ pc = "idle" /\ ret = "queued"
    /\ \E i \in Slots : slab[i] # Vacant /\ ~slab[i].polled /\ i \in PollableSet
                          /\ \A b \in Buffers : i \notin bits[b]

\* C4: a poll_next call returns end-of-stream exactly when it finds the
\* result queue and the slab empty, and only from its entry.
C4_EndOfStream ==
    [][ /\ PollEntry => ((results = << >> /\ is_empty) <=> ReturnsEos)
        /\ pc # "idle" => ~ReturnsEos ]_vars

\* C4 witness: end-of-stream was returned after an output had been returned.
C4_Witness == pc = "idle" /\ ret = "eos" /\ \E k \in TaskIds : delivered[k] = 1


\* Every pushed future's output was returned.
AllReturned == \A k \in Pushed : delivered[k] = 1

\* C5 as claimed: once a poll_next call has returned end-of-stream, no later
\* call returns an output, whatever pushes and polls follow.
C5_Original == (eos # "no") => ret \notin {"queued", "ready"}

\* C5 amended: a poll_next call entered when every pushed future's output
\* has been returned, or after an end-of-stream that no push has followed,
\* returns end-of-stream (and so no output); a push after end-of-stream
\* revives the stream.
C5_TerminalUntilPush ==
    [][ (PollEntry /\ (AllReturned \/ eos = "ended")) => ReturnsEos ]_vars

\* C5 witness: end-of-stream was returned after every pushed future's output
\* was returned, and no push has followed it.
C5_Witness == eos = "ended" /\ ret = "eos" /\ Pushed # {} /\ AllReturned

\* Pushed futures that have not completed.
Outstanding == {k \in Pushed : delivered[k] = 0 /\ InResults(k) = 0}

C7_Original == (pc = "reserve" /\ same) => ~swapped

\* C7 amended: the stored parent waker changes only in a poll_next call that
\* gets past both early returns with a waker other than the stored one; and
\* of two consecutive calls given the same waker, the second replaces
\* nothing provided the first got past both early returns.
C7_SwapOnlyWhenDifferent ==
    [][ /\ (waker' # waker \/ (swapped' /\ ~swapped)) =>
             /\ PollEntry /\ results = << >> /\ ~is_empty
             /\ waker # cx' /\ waker' = cx' /\ swapped' /\ pc' = "reserve"
        /\ (PollEntry /\ pc' = "reserve" /\ cx' = cx /\ ret \in {"ready", "pending"}) =>
             (~swapped' /\ waker' = waker) ]_vars

\* C7 witness: a call got past the early returns with the waker of the call
\* before it, which had got past them too, and replaced nothing.
C7_Witness ==
    pc = "reserve" /\ same /\ ret \in {"ready", "pending"} /\ ~swapped /\ waker = cx

\* C8: the first advance of a future is made for its entry in the pollable
\* list; the step invokes no wake handle and sets no wake bit; if the future
\* completes its output is queued and its slot vacated in that step; and as
\* long as no wake handle was invoked no wake bit is set.
C8_FirstAdvance ==
    [][ /\ \A i \in Slots :
             (pc = "loop" /\ slab[i] # Vacant /\ ~slab[i].polled /\ slab'[i] # slab[i]) =>
                /\ pollable # << >> /\ i = pollable[Len(pollable)]
                /\ pollable' = SubSeq(pollable, 1, Len(pollable) - 1)
                /\ tpc' = tpc /\ anyWake' = anyWake /\ bits' = bits
                /\ \/ slab'[i] = Vacant /\ results' = Append(results, slab[i].id)
                   \/ slab'[i] = [slab[i] EXCEPT !.polled = TRUE] /\ results' = results
        /\ ~anyWake' => \A b \in Buffers : bits'[b] = {} ]_vars

\* C8 witness: an output was returned and no wake handle was ever invoked.
C8_Witness == ~anyWake /\ \E k \in TaskIds : delivered[k] = 1

\* C9: after a poll_next call returned Poll::Pending the stored parent waker
\* is that call's waker, and whenever a wake bit is set the caller has been
\* woken since the call began or a wake handle is about to wake it.
C9_NoMissedWakeup ==
    (pc = "idle" /\ ret = "pending") =>
        /\ waker = cx
        /\ (\E b \in Buffers : bits[b] # {}) =>
              (notified \/ \E t \in Threads : tpc[t] = "wake")

\* C9 witness: after a Poll::Pending a wake handle has set a bit in the
\* active wake set and woken the caller.
C9_Witness ==
    /\ pc = "idle" /\ ret = "pending" /\ bits[active] # {} /\ notified
    /\ \A t \in Threads : tpc[t] = "idle"

\* Exactly one wake set is Shared, the active one; the other is Exclusive
\* and held by the owner as alternate.
OneShared ==
    /\ active \in Buffers /\ wake_alternate \in Buffers /\ active # wake_alternate
    /\ lock[active] # Exclusive
    /\ lock[wake_alternate] = Exclusive

\* C10 as claimed: at every instant, the steps of the unlock / swap / lock
\* sequence included, exactly one wake set is Shared.
C10_Original == OneShared

\* C10 amended: exactly one wake set is Shared except between unlock_write
\* and the end of lock_write of a poll_next call, when neither wake set is
\* Exclusive; the active pointer and the alternate always differ.
C10_OneSharedOutsideSwap ==
    /\ pc \notin {"swap", "lock"} => OneShared
    /\ pc \in {"swap", "lock"} =>
          /\ \A b \in Buffers : lock[b] # Exclusive
          /\ active \in Buffers /\ wake_alternate \in Buffers /\ active # wake_alternate

\* C10 witness: the owner drains the Exclusive alternate while a thread holds
\* the active wake set shared.
C10_Witness ==
    pc = "loop" /\ OneShared /\ \E t \in Threads : tpc[t] = "set" /\ tbuf[t] = active

\* C11: the owner grows a wake set (at "reserve") and drains one (in the
\* loop) only while that wake set is Exclusive, is not the active one and no
\* thread is setting a bit in it; and a thread sets a bit only in a wake set
\* it holds shared, never in an Exclusive one, also when it loaded the
\* active pointer before the swap and goes on after it.
C11_ExclusiveResizeDrain ==
    /\ pc \in {"reserve", "loop"} =>
          /\ lock[wake_alternate] = Exclusive
          /\ wake_alternate # active
          /\ \A t \in Threads : tpc[t] = "set" => tbuf[t] # wake_alternate
    /\ \A t \in Threads : (tpc[t] = "set" /\ tbuf[t] # Freed) => lock[tbuf[t]] > 0

\* C11 witness: the owner is draining set bits while a thread that loaded
\* the active pointer before the swap is about to lock the drained wake set.
C11_Witness ==
    /\ pc = "loop" /\ bits[wake_alternate] # {}
    /\ \E t \in Threads : tpc[t] = "lock" /\ tbuf[t] = wake_alternate

\* C12: lock_write after the swap ends, and with it every poll_next call:
\* while it waits a thread is setting a bit in the drained wake set, to
\* which it loaded the pointer before the swap; every pointer a thread loads
\* is the active one, so a wake begun after the swap does not hold the
\* drained wake set; and no other step of a poll_next call waits.
C12_LockWriteTerminates ==
    /\ [](pc = "lock" =>
            (ENABLED PollLock \/ \E t \in Threads : tpc[t] = "set" /\ tbuf[t] = wake_alternate))
    /\ [](pc \in {"reserve", "swap", "loop"} => ENABLED OwnerStep)
    /\ [][\A t \in Threads : (tbuf'[t] # tbuf[t] /\ tbuf'[t] # NoBuffer) => tbuf'[t] = active]_vars
    /\ (pc = "lock" ~> pc = "loop")
    /\ (pc \in {"reserve", "swap", "lock", "loop"} ~> pc = "idle")

\* C12 witness: lock_write waits for a thread that is setting a bit in the
\* drained wake set.
C12_Witness ==
    /\ pc = "lock" /\ lock[wake_alternate] > 0
    /\ \E t \in Threads : tpc[t] = "set" /\ tbuf[t] = wake_alternate

\* C13: a poll_next call entered with a result queued returns at once with
\* the oldest result and wakes the caller's waker; it leaves the rest of the
\* queue, the slab, the pollable list, both wake sets, the active pointer
\* and the stored parent waker as they are.
C13_QueuedResultOnly ==
    [][ (PollEntry /\ results # << >>) =>
          /\ PollReturn /\ ret' = "queued"
          /\ results' = Tail(results)
          /\ delivered' = [delivered EXCEPT ![Head(results)] = @ + 1]
          /\ notified'
          /\ UNCHANGED << slab, max_index, handles, pollable, wake_alternate, active,
                          bits, cap, lock, waker >> ]_vars

\* C13 witness: a call given a waker other than the stored one returned a
\* queued result and left an index in the pollable list and a wake bit set.
C13_Witness ==
    /\ pc = "idle" /\ ret = "queued" /\ waker # cx
    /\ pollable # << >> /\ \E b \in Buffers : bits[b] # {}

\* C14: a poll_next call that returns an output has woken the caller's
\* waker when it returns, from the early return and after a cycle alike; so
\* has every call that returns with a result left in the queue; and a call
\* returns one output or none, outputs being returned by no other step.
C14_OutputNotifies ==
    [][ /\ ReturnsOutput => notified'
        /\ (PollReturn /\ results' # << >>) => (ReturnsOutput /\ notified')
        /\ ReturnsOutput =>
              \E k \in TaskIds : delivered' = [delivered EXCEPT ![k] = @ + 1]
        /\ ~ReturnsOutput => delivered' = delivered ]_vars

\* C14 witness: a call returned an output after a cycle, woke the caller and
\* left another result in the queue.
C14_Witness == pc = "idle" /\ ret = "ready" /\ results # << >> /\ notified

\* C15: a turn of the loop for a vacant slot changes neither the slab nor
\* the result queue and hands out no wake handle; a turn for an occupied
\* slot either completes its future, queueing the output and vacating the
\* slot in that step, or leaves it in place; a future whose output is
\* queued or was returned is in no slot, so whatever is advanced later at
\* its index is another future.
C15_NoAdvanceAfterCompletion ==
    [][ /\ \A i \in Slots : Taken(i) =>
             /\ \A j \in Slots \ {i} : slab'[j] = slab[j]
             /\ IF slab[i] = Vacant
                  THEN UNCHANGED << slab, results, handles, delivered, max_index >>
                  ELSE /\ ~Completed(slab[i].id)
                       /\ \/ slab'[i] = Vacant /\ results' = Append(results, slab[i].id)
                          \/ slab'[i].id = slab[i].id /\ results' = results
        /\ \A i \in Slots :
             slab'[i] # Vacant =>
               /\ delivered'[slab'[i].id] = 0
               /\ \A j \in 1 .. Len(results') : results'[j] # slab'[i].id ]_vars

\* C15 witness: a future pushed into a reused slot completed in this cycle
\* for its pollable entry, and the stale wake bit of its index is still to
\* be drained: it will find the slot vacant.
C15_Witness ==
    /\ pc = "loop" /\ pollable = << >> /\ results # << >>
    /\ \E i \in bits[wake_alternate] :
          slab[i] = Vacant /\ \A j \in Slots \ {i} : slab[j] # Vacant

\* C16: a slot's future is advanced (changed, or given its first wake
\* handle) only in a turn of the loop taken for its index, which came from
\* the pollable list or from the drained wake set (a slot changes otherwise
\* only when push fills it or Drop destroys it); neither list grows during
\* the loop; every turn for an occupied slot advances it with a wake handle
\* bound to its index; and the loop ends only with both lists empty.
C16_AdvancedAreListed ==
    [][ /\ \A i \in Slots :
             (slab'[i] # slab[i] \/ (i \in handles' /\ i \notin handles)) =>
                \/ Taken(i) /\ slab[i] # Vacant /\ i \in handles'
                \/ /\ pc = "idle" /\ slab[i] = Vacant /\ handles' = handles
                   /\ pollable' = Append(pollable, i)
                \/ /\ pc = "idle" /\ pc' = "dropped" /\ handles' = handles
                   /\ slab'[i] = Vacant
        /\ \A i \in Slots : (Taken(i) /\ slab[i] # Vacant) => i \in handles'
        /\ pc = "loop" =>
             /\ wake_alternate' = wake_alternate
             /\ bits'[wake_alternate] \subseteq bits[wake_alternate]
             /\ Len(pollable') <= Len(pollable)
        /\ (pc = "loop" /\ pc' # "loop") =>
             (pollable' = << >> /\ bits'[wake_alternate] = {}) ]_vars

\* C16 witness: in the loop, the pollable list exhausted, the drained wake
\* set holds the index of one occupied slot and not that of another, which
\* was advanced before and stays outstanding.
C16_Witness ==
    /\ pc = "loop" /\ pollable = << >> /\ results = << >>
    /\ \E i \in bits[wake_alternate], j \in Slots \ bits[wake_alternate] :
          slab[i] # Vacant /\ slab[j] # Vacant /\ slab[j].polled

\* C17: a thread locks and sets its index only in a wake set whose capacity
\* exceeds the index; every index a wake handle is bound to is at most
\* max_index and below the capacity of the active wake set; a wake set is
\* published (and stays active) with capacity above max_index; and a
\* capacity changes only by growing, of a wake set that is write-locked and
\* not active.
C17_SetWithinCapacity ==
    [][ /\ \A t \in Threads :
             (tpc'[t] \in {"lock", "set"} /\ tbuf'[t] # Freed') =>
                cap'[tbuf'[t]] > tidx'[t]
        /\ \A i \in handles' : i <= max_index' /\ cap'[active'] > i
        /\ pc' = "swap" => cap'[wake_alternate'] > max_index'
        /\ pc' \in {"lock", "loop"} => cap'[active'] > max_index'
        /\ \A b \in Buffers :
             cap'[b] # cap[b] =>
                (b # active /\ lock[b] = Exclusive /\ cap'[b] > cap[b]) ]_vars

\* C17 witness: a thread sets the bit of the largest index, pushed after
\* the alternate wake set was last grown, in the active wake set, which was
\* grown for it.
C17_Witness ==
    /\ max_index > 0 /\ cap[wake_alternate] > 0 /\ cap[wake_alternate] <= max_index
    /\ \E t \in Threads : tpc[t] = "set" /\ tidx[t] = max_index /\ tbuf[t] = active

\* C18: poll_next returns Poll::Pending only at the end of a cycle, with
\* the result queue empty, the pollable list empty and the slab not empty;
\* a cycle that ends with a result queued returns the oldest one as
\* Poll::Ready in that call.
C18_PendingOnlyWhenNothingReady ==
    [][ /\ ReturnsPending =>
             /\ pc = "loop"
             /\ results = << >> /\ results' = << >>
             /\ pollable' = << >>
             /\ ~is_empty'
        /\ (pc = "loop" /\ pc' = "idle" /\ results # << >>) =>
             /\ ret' = "ready"
             /\ delivered' = [delivered EXCEPT ![Head(results)] = @ + 1] ]_vars

\* C18 witness: Poll::Pending was returned with every slot holding a future
\* that was advanced, both lists empty.
C18_Witness ==
    /\ pc = "idle" /\ ret = "pending" /\ results = << >> /\ pollable = << >>
    /\ \A i \in Slots : slab[i] # Vacant /\ slab[i].polled

C20_Original ==
    [][ /\ pc' \in {"idle", "dropped"} =>
             /\ lock'[wake_alternate'] = Exclusive
             /\ wake_alternate' # active'
        /\ pc' = "idle" =>
             \A t \in Threads : tpc'[t] = "set" => tbuf'[t] # wake_alternate'
        /\ pc' = "dropped" => (Freed' = wake_alternate' /\ Freed' # active')
        /\ \A t \in Threads :
             (tpc[t] \in {"lock", "set"} /\ tpc'[t] # tpc[t]) => tbuf[t] # Freed ]_vars

====
